---------------------------- MODULE Spec2Model ----------------------------
(***************************************************************************)
(* NYCT No-Writer: the two Supabase edge functions (generate-decline and   *)
(* analyze-proposal, src/supabase/functions/generate-decline/index.ts) and *)
(* the browser wizard (src/frontend/src/App.tsx with its ProposalSummary   *)
(* and DeclineInput components).                                           *)
(*                                                                         *)
(* Texts are sequences of tokens: a token is a literal fragment of a       *)
(* template, a label, a piece of user text, or the line break NL.          *)
(* JavaScript values are tagged records, so that undefined, null, "" and   *)
(* objects stay distinct where the code's || and ?. tell them apart.       *)
(***************************************************************************)
EXTENDS Integers, Sequences, FiniteSets, TLC

(***************************************************************************)
(* JavaScript values                                                       *)
(***************************************************************************)
Undef == [t |-> "undefined"]
Null == [t |-> "null"]
Fun == [t |-> "function"]
Str(s) == [t |-> "string", v |-> s]
Num(n) == [t |-> "number", v |-> n]
Arr(a) == [t |-> "array", v |-> a]
Obj(f) == [t |-> "object", v |-> f]

EmptyObj == Obj([k \in {} |-> Undef])

IsStr(x) == x.t = "string"
IsObj(x) == x.t = "object"
IsNullish(x) == x.t \in {"undefined", "null"}

\* ToBoolean: undefined, null, "" and 0 are falsy; objects, arrays,
\* functions and every other string or number are truthy.
Truthy(x) ==
    CASE x.t = "undefined" -> FALSE
      [] x.t = "null" -> FALSE
      [] x.t = "string" -> x.v # <<>>
      [] x.t = "number" -> x.v # 0
      [] OTHER -> TRUE

\* a || b
Or(a, b) == IF Truthy(a) THEN a ELSE b

\* Names every plain object inherits from Object.prototype: obj[key] finds
\* them although the object literal does not list them.
ObjectPrototypeKeys == {"toString", "constructor", "valueOf", "hasOwnProperty"}

\* obj.key on an object value; undefined for a key it does not have.
\* (The caller handles null and undefined receivers, which throw.)
Get(o, k) ==
    CASE o.t = "object" -> IF k \in DOMAIN o.v THEN o.v[k]
                           ELSE IF k \in ObjectPrototypeKeys THEN Fun ELSE Undef
      [] OTHER -> Undef

(***************************************************************************)
(* Texts                                                                   *)
(***************************************************************************)
NL == "\n"

RECURSIVE JoinComma(_)
JoinComma(a) ==
    IF a = <<>> THEN <<>>
    ELSE IF Len(a) = 1 THEN (IF IsStr(a[1]) THEN a[1].v ELSE <<>>)
    ELSE (IF IsStr(a[1]) THEN a[1].v ELSE <<>>) \o <<",">> \o JoinComma(Tail(a))

\* `${x}` in a template literal: ToString of the value.
ToText(x) ==
    CASE x.t = "string" -> x.v
      [] x.t = "undefined" -> <<"undefined">>
      [] x.t = "null" -> <<"null">>
      [] x.t = "number" -> <<ToString(x.v)>>
      [] x.t = "array" -> JoinComma(x.v)
      [] x.t = "function" -> <<"function () { [native code] }">>
      [] OTHER -> <<"[object Object]">>

\* s.split(sep): the pieces between the separators.
RECURSIVE SplitFrom(_, _, _)
SplitFrom(s, sep, cur) ==
    IF s = <<>> THEN <<cur>>
    ELSE IF Head(s) = sep THEN <<cur>> \o SplitFrom(Tail(s), sep, <<>>)
    ELSE SplitFrom(Tail(s), sep, Append(cur, Head(s)))

Split(s, sep) == SplitFrom(s, sep, <<>>)

\* The lines of a text: the pieces between line breaks.
Lines(s) == Split(s, NL)
LastLine(s) == Lines(s)[Len(Lines(s))]

\* s.substring(0, n): the prefix of at most n tokens.
Substring0(s, n) == IF Len(s) <= n THEN s ELSE SubSeq(s, 1, n)

\* s.trim(): leading and trailing white space removed.
WhiteSpace == {" ", NL}
Trim(s) ==
    LET ink == {i \in DOMAIN s : s[i] \notin WhiteSpace} IN
    IF ink = {} THEN <<>>
    ELSE SubSeq(s, CHOOSE i \in ink : \A j \in ink : i <= j,
                   CHOOSE i \in ink : \A j \in ink : i >= j)

\* s occurs in text as a contiguous run of tokens.
Includes(text, s) ==
    \E i \in 0..(Len(text) - Len(s)) : SubSeq(text, i + 1, i + Len(s)) = s


(***************************************************************************)
(* Results of evaluating code that may throw                               *)
(***************************************************************************)
Ok(v) == [ok |-> TRUE, v |-> v]
Throw(e) == [ok |-> FALSE, e |-> e]

(***************************************************************************)
(* The decline-reason enumeration, as each component writes it             *)
(***************************************************************************)
\* DeclineInput's dropdown options, in order.
DECLINE_REASONS ==
    << [value |-> "project_capability", label |-> "Project Capability Problems"],
       [value |-> "general_operating", label |-> "General Operating Support"],
       [value |-> "higher_merit", label |-> "Other Projects Higher Merit"],
       [value |-> "outside_guidelines", label |-> "Outside Approved Guidelines"],
       [value |-> "incomplete_proposal", label |-> "Incomplete Proposal"],
       [value |-> "geographic_scope", label |-> "Geographic Scope Limitation"],
       [value |-> "strategic_mismatch", label |-> "Strategic Priority Mismatch"],
       [value |-> "sustainability", label |-> "Sustainability Concerns"] >>

\* reasonLabels with one label retyped.
reasonLabels_retyped ==
    [ project_capability |-> "Project Capability Problems",
      general_operating |-> "General Operating Support",
      higher_merit |-> "Other Projects Higher Merit",
      outside_guidelines |-> "Outside Approved Guidelines",
      incomplete_proposal |-> "Incomplete Proposal",
      geographic_scope |-> "Geographic Scope Limitation",
      strategic_mismatch |-> "Strategic Priority Mismatch",
      sustainability |-> "Sustainability" ]

\* The map literal inside the wizard's generateNYCTFormattedMemo.
reasonLabels ==
    [ project_capability |-> "Project Capability Problems",
      general_operating |-> "General Operating Support",
      higher_merit |-> "Other Projects Higher Merit",
      outside_guidelines |-> "Outside Approved Guidelines",
      incomplete_proposal |-> "Incomplete Proposal",
      geographic_scope |-> "Geographic Scope Limitation",
      strategic_mismatch |-> "Strategic Priority Mismatch",
      sustainability |-> "Sustainability Concerns" ]

\* The module-level map of the generate-decline function.
reasonDescriptions ==
    [ project_capability |-> "Project Capability Problems",
      general_operating |-> "General Operating Support",
      higher_merit |-> "Other Projects Higher Merit",
      outside_guidelines |-> "Outside Approved Guidelines",
      incomplete_proposal |-> "Incomplete Proposal",
      geographic_scope |-> "Geographic Scope Limitation",
      strategic_mismatch |-> "Strategic Priority Mismatch",
      sustainability |-> "Sustainability Concerns" ]

\* String.prototype.toLowerCase on the label tokens; a token with no
\* upper-case letter is its own lower case.
LowerOf ==
    [ tok \in {"Project Capability Problems", "General Operating Support",
               "Other Projects Higher Merit", "Outside Approved Guidelines",
               "Incomplete Proposal", "Geographic Scope Limitation",
               "Strategic Priority Mismatch", "Sustainability Concerns"} |->
        CASE tok = "Project Capability Problems" -> "project capability problems"
          [] tok = "General Operating Support" -> "general operating support"
          [] tok = "Other Projects Higher Merit" -> "other projects higher merit"
          [] tok = "Outside Approved Guidelines" -> "outside approved guidelines"
          [] tok = "Incomplete Proposal" -> "incomplete proposal"
          [] tok = "Geographic Scope Limitation" -> "geographic scope limitation"
          [] tok = "Strategic Priority Mismatch" -> "strategic priority mismatch"
          [] tok = "Sustainability Concerns" -> "sustainability concerns" ]

toLowerCase(s) ==
    [i \in DOMAIN s |-> IF s[i] \in DOMAIN LowerOf THEN LowerOf[s[i]] ELSE s[i]]

\* map[key] on a plain object literal whose values are label strings.
Lookup(map, key) ==
    IF key \in DOMAIN map THEN Str(<<map[key]>>)
    ELSE IF key \in ObjectPrototypeKeys THEN Fun
    ELSE Undef

\* map[key]?.toLowerCase(): undefined when the key is absent (the ?. stops),
\* the lower-cased label for a label, and a TypeError for an inherited
\* member, which is a function and has no toLowerCase to call.
LookupLower(map, key) ==
    LET v == Lookup(map, key) IN
    IF IsNullish(v) THEN Ok(Undef)
    ELSE IF IsStr(v) THEN Ok(Str(toLowerCase(v.v)))
    ELSE Throw("TypeError")

\* The property key a value is coerced to when it indexes an object.
ToKey(x) ==
    CASE x.t = "string" -> (IF x.v = <<>> THEN "" ELSE x.v[1])
      [] x.t = "undefined" -> "undefined"
      [] x.t = "null" -> "null"
      [] OTHER -> "[object Object]"


(***************************************************************************)
(* JSON.stringify                                                          *)
(***************************************************************************)
\* The declared fields of ExtractedProposalData, in declaration order.
SummaryFieldOrder ==
    << "organizationName", "organizationMission", "foundingYear", "grantAmount",
       "projectDescription", "targetPopulation", "geographicScope",
       "currentBudget", "projectBudget", "peopleServed", "keyDeliverables",
       "timeline" >>

SummaryFields == {SummaryFieldOrder[i] : i \in DOMAIN SummaryFieldOrder}

\* JSON.stringify(x) as data: what a client gets back from parsing the
\* emitted text.  Members whose value is undefined (or a function) are
\* left out; null stays; array elements that are undefined become null.
StringifyMember(x) ==
    CASE x.t = "array" ->
           Arr([i \in DOMAIN x.v |->
                  IF x.v[i].t \in {"undefined", "function"} THEN Null ELSE x.v[i]])
      [] OTHER -> x

Stringify(x) ==
    CASE x.t = "object" ->
           Obj([k \in {d \in DOMAIN x.v : x.v[d].t \notin {"undefined", "function"}} |->
                  IF x.v[k].t = "object"
                  THEN Obj([j \in {d \in DOMAIN x.v[k].v :
                                     x.v[k].v[d].t \notin {"undefined", "function"}} |->
                              StringifyMember(x.v[k].v[j])])
                  ELSE StringifyMember(x.v[k])])
      [] OTHER -> StringifyMember(x)

\* JSON.stringify(x, null, 2) as the text a template literal embeds.
ScalarText(x) ==
    CASE x.t = "string" -> <<"\"">> \o x.v \o <<"\"">>
      [] x.t = "null" -> <<"null">>
      [] x.t = "number" -> <<ToString(x.v)>>
      [] x.t = "array" -> <<"[">> \o JoinComma(x.v) \o <<"]">>
      [] OTHER -> <<"{}">>

RECURSIVE MembersText(_, _)
MembersText(o, keys) ==
    IF keys = <<>> THEN <<>>
    ELSE IF Head(keys) \in DOMAIN o /\ o[Head(keys)].t \notin {"undefined", "function"}
         THEN <<NL, Head(keys), ": ">> \o ScalarText(o[Head(keys)]) \o MembersText(o, Tail(keys))
         ELSE MembersText(o, Tail(keys))

StringifyText(x) ==
    CASE x.t = "undefined" -> <<"undefined">>
      [] x.t = "object" -> <<"{">> \o MembersText(x.v, SummaryFieldOrder) \o <<NL, "}">>
      [] OTHER -> ScalarText(x)

(***************************************************************************)
(* HTTP plumbing shared by the two edge functions                          *)
(***************************************************************************)
corsHeaders ==
    ("Access-Control-Allow-Origin" :> "*") @@
    ("Access-Control-Allow-Headers" :> "authorization, x-client-info, apikey, content-type")

\* { ...corsHeaders, 'Content-Type': 'application/json' }
jsonHeaders == ("Content-Type" :> "application/json") @@ corsHeaders

\* new Response(JSON.stringify(obj), { headers, status: 200 })
JsonResponse(obj) == [status |-> 200, headers |-> jsonHeaders, body |-> Stringify(obj)]

\* The preflight answer without the CORS headers.
PreflightResponse_bare == [status |-> 200, headers |-> <<>>, body |-> Str(<<"ok">>)]

\* new Response('ok', { headers: corsHeaders })
PreflightResponse == [status |-> 200, headers |-> corsHeaders, body |-> Str(<<"ok">>)]

\* What serve() answers when the handler's promise rejects.
InternalServerError ==
    [status |-> 500, headers |-> ("Content-Type" :> "text/plain;charset=UTF-8"),
     body |-> Str(<<"Internal Server Error">>)]

\* req.json(): a body can be read once; a second read rejects with a
\* TypeError.  A first read of a body that is not JSON rejects with a
\* SyntaxError.  Either way the body is used afterwards.
ReqJson(r) ==
    IF r.bodyUsed THEN Throw("TypeError")
    ELSE IF ~r.body.json THEN Throw("SyntaxError")
    ELSE Ok(r.body.v)

\* const { a, b, ... } = value: null and undefined cannot be destructured.
Destructure(value, keys) ==
    IF IsNullish(value) THEN Throw("TypeError")
    ELSE Ok([k \in keys |-> Get(value, k)])

\* completion.choices[0].message.content
FirstContent(completion) ==
    IF completion.choices = <<>> THEN Throw("TypeError")
    ELSE Ok(completion.choices[1].message.content)


(***************************************************************************)
(* generate-decline: the texts it builds                                   *)
(***************************************************************************)
\* The memo prompt of the try block.  It reads reasonDescriptions twice
\* and embeds JSON.stringify(proposal_summary, null, 2).
memoPrompt(reason_code, specific_reasons, proposal_summary) ==
    LET lower == LookupLower(reasonDescriptions, reason_code) IN
    IF ~lower.ok THEN lower
    ELSE Ok(<<"Write a concise internal memo for The New York Community Trust board in EXACTLY this format:",
              NL, "I recommend this request be declined for ">>
            \o ToText(Or(lower.v, Str(<<"the specified reason">>)))
            \o <<". ">> \o ToText(specific_reasons)
            \o <<NL, "Rationale: ">>
            \o ToText(Or(Lookup(reasonDescriptions, reason_code), Str(<<"Decline Reason">>)))
            \o <<NL, "Requirements:", NL, "Proposal Summary:", NL>>
            \o StringifyText(proposal_summary))

\* The letter prompt of the try block.
\* letterPrompt naming the requested amount as well.
letterPrompt_withAmount(proposal_summary) ==
    IF IsNullish(proposal_summary) THEN Throw("TypeError")
    ELSE Ok(<<"Write a professional, empathetic decline letter for a grant application from ">>
            \o ToText(Or(Get(proposal_summary, "organizationName"), Str(<<"the organization">>)))
            \o <<" for ">>
            \o ToText(Or(Get(proposal_summary, "grantAmount"), Str(<<"funding">>)))
            \o <<".", NL, "Requirements:", NL,
                 "Do not mention specific decline reasons or internal rationale.">>)

letterPrompt(proposal_summary) ==
    IF IsNullish(proposal_summary) THEN Throw("TypeError")
    ELSE Ok(<<"Write a professional, empathetic decline letter for a grant application from ">>
            \o ToText(Or(Get(proposal_summary, "organizationName"), Str(<<"the organization">>)))
            \o <<".", NL, "Requirements:", NL,
                 "Do not mention specific decline reasons or internal rationale.">>)

\* The template memo of the catch block.
fallbackMemo(proposal_summary, reason_code, specific_reasons) ==
    LET lower == LookupLower(reasonDescriptions, reason_code) IN
    IF IsNullish(proposal_summary) THEN Throw("TypeError")
    ELSE IF ~lower.ok THEN lower
    ELSE Ok(ToText(Or(Get(proposal_summary, "organizationName"), Str(<<"The organization">>)))
            \o <<" requests ">>
            \o ToText(Or(Get(proposal_summary, "grantAmount"), Str(<<"funding">>)))
            \o <<" to support ">>
            \o ToText(Or(Get(proposal_summary, "projectDescription"), Str(<<"their project">>)))
            \o <<".", NL, NL, "I recommend this request be declined for ">>
            \o ToText(Or(lower.v, Str(<<"the specified reason">>)))
            \o <<". ">> \o ToText(specific_reasons)
            \o <<NL, NL, "Rationale: ">>
            \o ToText(Or(Lookup(reasonDescriptions, reason_code), Str(<<"Decline Reason">>))))

\* The template letter of the catch block.
fallbackLetter(proposal_summary) ==
    IF IsNullish(proposal_summary) THEN Throw("TypeError")
    ELSE Ok(<<"Dear ">>
            \o ToText(Or(Get(proposal_summary, "organizationName"), Str(<<"Applicant">>)))
            \o <<",", NL, NL,
                 "Thank you for your proposal submission to The New York Community Trust. We appreciate your organization's dedication to serving the community.",
                 NL, NL,
                 "After careful review, we have determined that we will not be able to provide funding for this request at this time. While we recognize your important work, this proposal does not align with our current funding priorities.",
                 NL, NL,
                 "We encourage you to review our updated guidelines and consider applying for future opportunities.",
                 NL, NL, "Best regards,", NL, "NYCT Program Team">>)

\* The body of the success response: the two reply contents passed through.
GenerateSuccessBody(internalMemo, externalLetter) ==
    Obj(("internal_rationale" :> internalMemo) @@
        ("external_reply" :> externalLetter) @@
        ("generation_time_ms" :> Num(3000)))

\* The body of the catch block's response.
GenerateFallbackBody(memo, letter) ==
    Obj(("internal_rationale" :> Str(memo)) @@
        ("external_reply" :> Str(letter)) @@
        ("generation_time_ms" :> Num(1000)))


(***************************************************************************)
(* The edge runtime: state                                                 *)
(***************************************************************************)
VARIABLES
    apiKey,     \* Deno.env.get('OPENAI_API_KEY'): "set" or "unset"
    conn        \* per connection: the request and its handler's progress
                \* (envRead: Deno.env.get('OPENAI_API_KEY') was evaluated)

\* The wizard's React state (App and, while mounted, DeclineInput) and the
\* analyze requests it has sent that have not settled yet.
VARIABLES
    currentStage, uploadedFile, proposalSummary, generatedOutput,
    isAnalyzing, isGenerating,
    selectedReason, specificReasons, errors,
    pending

edgeVars == <<apiKey, conn>>
wizVars == <<currentStage, uploadedFile, proposalSummary, generatedOutput,
             isAnalyzing, isGenerating, selectedReason, specificReasons, errors,
             pending>>
vars == <<edgeVars, wizVars>>

\* Connections the runtime serves side by side.
Conns == {"c1", "c2"}

Idle == [pc |-> "idle"]
NoResp == [none |-> TRUE]

(***************************************************************************)
(* Requests and model replies the environment may produce                  *)
(***************************************************************************)
Malformed == [json |-> FALSE]
JsonBody(v) == [json |-> TRUE, v |-> v]

AcmeSummary ==
    Obj(("organizationName" :> Str(<<"Acme Org">>)) @@
        ("grantAmount" :> Str(<<"$20,000">>)) @@
        ("projectDescription" :> Str(<<"clothing drive">>)))

\* The same organization with another request.
AcmePantrySummary ==
    Obj(("organizationName" :> Str(<<"Acme Org">>)) @@
        ("grantAmount" :> Str(<<"$75,000">>)) @@
        ("projectDescription" :> Str(<<"food pantry">>)))

NoPlan == Str(<<"No plan to sustain funding after grant period.">>)
TwoLines == Str(<<"Budget doubles.", NL, "Five part-time staff.">>)

GenBody(code, reasons, summary) ==
    JsonBody(Obj(("reason_code" :> Str(<<code>>)) @@
                 ("specific_reasons" :> reasons) @@
                 ("proposal_summary" :> summary)))

GenerateBodies ==
    {GenBody(DECLINE_REASONS[i].value, NoPlan, AcmeSummary) : i \in DOMAIN DECLINE_REASONS}
    \cup {GenBody("not_a_real_code", NoPlan, AcmeSummary),
          GenBody("toString", NoPlan, AcmeSummary),
          GenBody("higher_merit", TwoLines, EmptyObj),
          GenBody("sustainability", TwoLines, AcmePantrySummary),
          JsonBody(Obj(("reason_code" :> Str(<<"sustainability">>)) @@
                       ("specific_reasons" :> NoPlan))),
          JsonBody(Null),
          Malformed}

Completion(content) == [kind |-> "completion", choices |-> <<[message |-> [content |-> content]]>>]
NoChoices == [kind |-> "completion", choices |-> <<>>]
CallFails == [kind |-> "error"]
Pending == [kind |-> "pending"]

ModelText == Str(<<"Model-written text.">>)

\* What openai.chat.completions.create may settle with in generate-decline.
GenerateOutcomes ==
    {CallFails, NoChoices, Completion(Null), Completion(Str(<<>>)), Completion(ModelText)}

(***************************************************************************)
(* generate-decline: the handler                                           *)
(***************************************************************************)
Receive(c, fn, method, body) ==
    /\ conn[c].pc = "idle"
    /\ conn' = [conn EXCEPT ![c] =
                  [pc |-> "start", fn |-> fn, method |-> method, body |-> body,
                   bodyUsed |-> FALSE, envRead |-> FALSE, args |-> Undef,
                   internalMemo |-> Undef,
                   calls |-> <<>>, rejected |-> FALSE, resp |-> NoResp]]
    /\ UNCHANGED <<apiKey, wizVars>>

\* return statement of the handler
Respond(r, resp) == [r EXCEPT !.pc = "done", !.resp = resp]

\* the handler's promise rejects; serve() answers 500
Reject(r) == [r EXCEPT !.pc = "done", !.rejected = TRUE, !.resp = InternalServerError]

GenerateOptions(c) ==
    /\ conn[c].pc = "start" /\ conn[c].fn = "generate" /\ conn[c].method = "OPTIONS"
    /\ conn' = [conn EXCEPT ![c] = Respond(conn[c], PreflightResponse)]
    /\ UNCHANGED <<apiKey, wizVars>>

\* GenerateTry issuing the letter call together with the memo call, as with
\* Promise.all over the two create(...) calls.
GenerateTry_bothAtOnce(c) ==
    /\ conn[c].pc = "start" /\ conn[c].fn = "generate" /\ conn[c].method # "OPTIONS"
    /\ LET r == conn[c]
           read == [r EXCEPT !.bodyUsed = TRUE]
           json == ReqJson(r)
           args == IF json.ok
                   THEN Destructure(json.v, {"reason_code", "specific_reasons", "proposal_summary"})
                   ELSE json
           prompt == IF args.ok
                     THEN memoPrompt(ToKey(args.v["reason_code"]), args.v["specific_reasons"],
                                     args.v["proposal_summary"])
                     ELSE args
           letter == IF args.ok THEN letterPrompt(args.v["proposal_summary"]) ELSE args
       IN  conn' = [conn EXCEPT ![c] =
             IF ~json.ok \/ ~args.ok \/ apiKey = "unset" \/ ~prompt.ok \/ ~letter.ok
             THEN [read EXCEPT !.pc = "catch", !.envRead = json.ok /\ args.ok]
             ELSE [read EXCEPT !.pc = "memoCall", !.envRead = TRUE, !.args = Obj(args.v),
                               !.calls = <<[call |-> "memo", prompt |-> prompt.v,
                                            outcome |-> Pending],
                                           [call |-> "letter", prompt |-> letter.v,
                                            outcome |-> Pending]>>]]
    /\ UNCHANGED <<apiKey, wizVars>>

\* try { req.json(); new OpenAI(...); memoPrompt; create(...) is issued
GenerateTry(c) ==
    /\ conn[c].pc = "start" /\ conn[c].fn = "generate" /\ conn[c].method # "OPTIONS"
    /\ LET r == conn[c]
           read == [r EXCEPT !.bodyUsed = TRUE]
           json == ReqJson(r)
           args == IF json.ok
                   THEN Destructure(json.v, {"reason_code", "specific_reasons", "proposal_summary"})
                   ELSE json
           prompt == IF args.ok
                     THEN memoPrompt(ToKey(args.v["reason_code"]), args.v["specific_reasons"],
                                     args.v["proposal_summary"])
                     ELSE args
       IN  conn' = [conn EXCEPT ![c] =
             IF ~json.ok \/ ~args.ok \/ apiKey = "unset" \/ ~prompt.ok
             THEN [read EXCEPT !.pc = "catch", !.envRead = json.ok /\ args.ok]
             ELSE [read EXCEPT !.pc = "memoCall", !.envRead = TRUE, !.args = Obj(args.v),
                               !.calls = <<[call |-> "memo", prompt |-> prompt.v,
                                            outcome |-> Pending]>>]]
    /\ UNCHANGED <<apiKey, wizVars>>

\* memoCompletion settles; internalMemo; letterPrompt; create(...) is issued
GenerateMemoReturns(c, out) ==
    /\ conn[c].pc = "memoCall"
    /\ LET r == conn[c]
           settled == [r EXCEPT !.calls[1].outcome = out]
           content == IF out.kind = "error" THEN Throw("APIError") ELSE FirstContent(out)
           prompt == letterPrompt(Get(r.args, "proposal_summary"))
       IN  conn' = [conn EXCEPT ![c] =
             IF ~content.ok \/ ~prompt.ok
             THEN [settled EXCEPT !.pc = "catch"]
             ELSE [settled EXCEPT !.pc = "letterCall", !.internalMemo = content.v,
                                  !.calls = Append(settled.calls,
                                                   [call |-> "letter", prompt |-> prompt.v,
                                                    outcome |-> Pending])]]
    /\ UNCHANGED <<apiKey, wizVars>>

\* letterCompletion settles; externalLetter; the success response
GenerateLetterReturns(c, out) ==
    /\ conn[c].pc = "letterCall"
    /\ LET r == conn[c]
           settled == [r EXCEPT !.calls[2].outcome = out]
           content == IF out.kind = "error" THEN Throw("APIError") ELSE FirstContent(out)
       IN  conn' = [conn EXCEPT ![c] =
             IF ~content.ok
             THEN [settled EXCEPT !.pc = "catch"]
             ELSE Respond(settled, JsonResponse(GenerateSuccessBody(r.internalMemo, content.v)))]
    /\ UNCHANGED <<apiKey, wizVars>>

\* catch (error) { ... await req.json() ... fallbackMemo, fallbackLetter ... }
GenerateCatch(c) ==
    /\ conn[c].pc = "catch" /\ conn[c].fn = "generate"
    /\ LET r == conn[c]
           read == [r EXCEPT !.bodyUsed = TRUE]
           json == ReqJson(r)
           args == IF json.ok
                   THEN Destructure(json.v, {"proposal_summary", "reason_code", "specific_reasons"})
                   ELSE json
           memo == IF args.ok
                   THEN fallbackMemo(args.v["proposal_summary"], ToKey(args.v["reason_code"]),
                                     args.v["specific_reasons"])
                   ELSE args
           letter == IF args.ok THEN fallbackLetter(args.v["proposal_summary"]) ELSE args
       IN  conn' = [conn EXCEPT ![c] =
             IF ~json.ok \/ ~args.ok \/ ~memo.ok \/ ~letter.ok
             THEN Reject(read)
             ELSE Respond(read, JsonResponse(GenerateFallbackBody(memo.v, letter.v)))]
    /\ UNCHANGED <<apiKey, wizVars>>

\* the connection is closed and its slot serves the next request
Close(c) ==
    /\ conn[c].pc = "done"
    /\ conn' = [conn EXCEPT ![c] = Idle]
    /\ UNCHANGED <<apiKey, wizVars>>


(***************************************************************************)
(* JSON.parse on token texts                                               *)
(***************************************************************************)
\* The string contents that occur inside JSON replies of the model.
JsonWords ==
    SummaryFields \cup
    {"", "Test Org", "Serve the community", "2020", "$50,000", "After-school tutoring",
     "Youth", "Brooklyn", "$1,000,000", "$75,000", "300", "Curriculum", "12 months"}

JsonNumbers == {"42"}
NumberOf(tok) == CASE tok = "42" -> 42

\* The token of the string literal "w".
Q(w) == "\"" \o w \o "\""

IsStringToken(tok) == \E w \in JsonWords : Q(w) = tok
Unquote(tok) == CHOOSE w \in JsonWords : Q(w) = tok

IsScalarToken(tok) == tok = "null" \/ tok \in JsonNumbers \/ IsStringToken(tok)

ParseScalar(tok) ==
    IF tok = "null" THEN Null
    ELSE IF tok \in JsonNumbers THEN Num(NumberOf(tok))
    ELSE IF Unquote(tok) = "" THEN Str(<<>>)
    ELSE Str(<<Unquote(tok)>>)

\* toks[i..j] is "[" scalar ("," scalar)* "]" or "[" "]"
IsArrayAt(toks, i, j) ==
    /\ j > i /\ toks[i] = "[" /\ toks[j] = "]"
    /\ \/ j = i + 1
       \/ /\ (j - i) % 2 = 0
          /\ \A k \in (i + 1)..(j - 1) :
                IF (k - i) % 2 = 1 THEN IsScalarToken(toks[k]) ELSE toks[k] = ","

ParseArrayAt(toks, i, j) ==
    Arr([n \in 1..((j - i) \div 2) |-> ParseScalar(toks[i + 2 * n - 1])])

\* The index of the last token of the value that starts at i; 0 if none does.
ValueEnd(toks, i) ==
    IF i > Len(toks) THEN 0
    ELSE IF IsScalarToken(toks[i]) THEN i
    ELSE IF toks[i] = "["
         THEN LET ends == {j \in (i + 1)..Len(toks) : toks[j] = "]"}
              IN  IF ends = {} THEN 0
                  ELSE LET j == CHOOSE e \in ends : \A f \in ends : e <= f
                       IN  IF IsArrayAt(toks, i, j) THEN j ELSE 0
         ELSE 0

ParseValueAt(toks, i, j) ==
    IF i = j THEN ParseScalar(toks[i]) ELSE ParseArrayAt(toks, i, j)

\* members of an object from token i on: string ":" value, then "," or "}"
RECURSIVE ParseMembers(_, _, _)
ParseMembers(toks, i, acc) ==
    IF i + 2 > Len(toks) \/ ~IsStringToken(toks[i]) \/ toks[i + 1] # ":"
    THEN Throw("SyntaxError")
    ELSE LET e == ValueEnd(toks, i + 2) IN
         IF e = 0 \/ e + 1 > Len(toks) THEN Throw("SyntaxError")
         ELSE LET more == (Unquote(toks[i]) :> ParseValueAt(toks, i + 2, e)) @@ acc IN
              IF toks[e + 1] = "}" /\ e + 1 = Len(toks) THEN Ok(Obj(more))
              ELSE IF toks[e + 1] = "," THEN ParseMembers(toks, e + 2, more)
              ELSE Throw("SyntaxError")

\* JSON.parse of a text
ParseText(toks) ==
    IF toks = <<>> THEN Throw("SyntaxError")
    ELSE IF toks = <<"{", "}">> THEN Ok(EmptyObj)
    ELSE IF toks[1] = "{" THEN ParseMembers(toks, 2, [k \in {} |-> Undef])
    ELSE IF ValueEnd(toks, 1) = Len(toks) THEN Ok(ParseValueAt(toks, 1, Len(toks)))
    ELSE Throw("SyntaxError")

\* JSON.parse(x): the argument is first converted to a string, so
\* JSON.parse(null) parses the text "null".
JSONParse(x) == ParseText(ToText(x))


(***************************************************************************)
(* analyze-proposal: the handler                                           *)
(***************************************************************************)
\* text_content.substring(0, 8000) keeps this many characters.
PromptLimit == 8000

\* extractionPrompt embedding the whole text.
extractionPrompt_untruncated(text_content) ==
    IF ~IsStr(text_content) THEN Throw("TypeError")
    ELSE Ok(<<"Analyze this grant proposal and extract the following information in JSON format:",
              NL, "If a field is not found in the proposal, use null for that field.",
              NL, "Proposal text:", NL>>
            \o text_content.v)

\* The extraction prompt; text_content must be a string to have substring.
extractionPrompt(text_content) ==
    IF ~IsStr(text_content) THEN Throw("TypeError")
    ELSE Ok(<<"Analyze this grant proposal and extract the following information in JSON format:",
              NL, "If a field is not found in the proposal, use null for that field.",
              NL, "Proposal text:", NL>>
            \o Substring0(text_content.v, PromptLimit))

\* The body of the success response: the parsed reply passed through.
AnalyzeSuccessBody(extractedData) ==
    Obj(("summary" :> extractedData) @@ ("analysis_time_ms" :> Num(2000)))

\* The body of the catch block's response.
AnalyzeFallbackBody ==
    Obj(("summary" :> Obj(("organizationName" :> Str(<<"Organization">>)) @@
                          ("projectDescription" :> Str(<<"Unable to fully analyze proposal">>)) @@
                          ("grantAmount" :> Str(<<"Unknown">>)))) @@
        ("analysis_time_ms" :> Num(1000)))

TestOrgText ==
    Str(<<"Organization", ":", " ", "Test Org", NL, "Founded", ":", " ", "2020", NL,
          "Grant Request", ":", " ", "$50,000">>)

AnalyzeBodies ==
    {JsonBody(Obj(("text_content" :> TestOrgText) @@ ("filename" :> Str(<<"proposal.txt">>)))),
     JsonBody(Obj(("text_content" :> Str(<<>>)))),
     JsonBody(Obj(("filename" :> Str(<<"proposal.pdf">>)))),
     Malformed}

FullSummaryJson ==
    <<"{", Q("organizationName"), ":", Q("Test Org"), ",",
           Q("organizationMission"), ":", Q("Serve the community"), ",",
           Q("foundingYear"), ":", Q("2020"), ",",
           Q("grantAmount"), ":", Q("$50,000"), ",",
           Q("projectDescription"), ":", Q("After-school tutoring"), ",",
           Q("targetPopulation"), ":", Q("Youth"), ",",
           Q("geographicScope"), ":", Q("Brooklyn"), ",",
           Q("currentBudget"), ":", Q("$1,000,000"), ",",
           Q("projectBudget"), ":", Q("$75,000"), ",",
           Q("peopleServed"), ":", Q("300"), ",",
           Q("keyDeliverables"), ":", "[", Q("Curriculum"), ",", Q("12 months"), "]", ",",
           Q("timeline"), ":", "null", "}">>

\* Reply contents of the extraction call: JSON objects (complete, partial,
\* mistyped, empty), other JSON values, text that is no JSON, and no text.
AnalyzeContents ==
    {Str(FullSummaryJson),
     Str(<<"{", Q("organizationName"), ":", Q("Test Org"), ",", Q("grantAmount"), ":", "null", "}">>),
     Str(<<"{", Q("organizationName"), ":", "42", "}">>),
     Str(<<"{", "}">>),
     Str(<<"null">>),
     Str(<<"[", "]">>),
     Str(<<Q("Test Org")>>),
     Str(<<"{", Q("organizationName"), ":">>),
     Str(<<"Here is the summary you asked for.">>),
     Str(<<>>),
     Null}

AnalyzeOutcomes == {CallFails, NoChoices} \cup {Completion(c) : c \in AnalyzeContents}

AnalyzeOptions(c) ==
    /\ conn[c].pc = "start" /\ conn[c].fn = "analyze" /\ conn[c].method = "OPTIONS"
    /\ conn' = [conn EXCEPT ![c] = Respond(conn[c], PreflightResponse)]
    /\ UNCHANGED <<apiKey, wizVars>>

\* try { req.json(); new OpenAI(...); extractionPrompt; create(...) is issued
AnalyzeTry(c) ==
    /\ conn[c].pc = "start" /\ conn[c].fn = "analyze" /\ conn[c].method # "OPTIONS"
    /\ LET r == conn[c]
           read == [r EXCEPT !.bodyUsed = TRUE]
           json == ReqJson(r)
           args == IF json.ok THEN Destructure(json.v, {"text_content", "filename"}) ELSE json
           prompt == IF args.ok THEN extractionPrompt(args.v["text_content"]) ELSE args
       IN  conn' = [conn EXCEPT ![c] =
             IF ~json.ok \/ ~args.ok \/ apiKey = "unset" \/ ~prompt.ok
             THEN [read EXCEPT !.pc = "catch", !.envRead = json.ok /\ args.ok]
             ELSE [read EXCEPT !.pc = "extractCall", !.envRead = TRUE, !.args = Obj(args.v),
                               !.calls = <<[call |-> "extract", prompt |-> prompt.v,
                                            outcome |-> Pending]>>]]
    /\ UNCHANGED <<apiKey, wizVars>>

\* AnalyzeReturns on a client object shared by the invocations: a reply that
\* arrives while another invocation's call is outstanding is lost.
AnalyzeReturns_sharedClient(c, out) ==
    /\ conn[c].pc = "extractCall"
    /\ LET r == conn[c]
           settled == [r EXCEPT !.calls[1].outcome = out]
           busy == \E d \in Conns \ {c} : conn[d].pc = "extractCall"
           content == IF out.kind = "error" \/ busy THEN Throw("APIError") ELSE FirstContent(out)
           extractedData == IF content.ok THEN JSONParse(content.v) ELSE content
       IN  conn' = [conn EXCEPT ![c] =
             IF ~content.ok \/ ~extractedData.ok
             THEN [settled EXCEPT !.pc = "catch"]
             ELSE Respond(settled, JsonResponse(AnalyzeSuccessBody(extractedData.v)))]
    /\ UNCHANGED <<apiKey, wizVars>>

\* completion settles; JSON.parse of its content; the success response
AnalyzeReturns(c, out) ==
    /\ conn[c].pc = "extractCall"
    /\ LET r == conn[c]
           settled == [r EXCEPT !.calls[1].outcome = out]
           content == IF out.kind = "error" THEN Throw("APIError") ELSE FirstContent(out)
           extractedData == IF content.ok THEN JSONParse(content.v) ELSE content
       IN  conn' = [conn EXCEPT ![c] =
             IF ~content.ok \/ ~extractedData.ok
             THEN [settled EXCEPT !.pc = "catch"]
             ELSE Respond(settled, JsonResponse(AnalyzeSuccessBody(extractedData.v)))]
    /\ UNCHANGED <<apiKey, wizVars>>

\* AnalyzeCatch reporting a measured time instead of the fixed 1000.
AnalyzeCatch_measured(c) ==
    /\ conn[c].pc = "catch" /\ conn[c].fn = "analyze"
    /\ conn' = [conn EXCEPT ![c] =
          Respond(conn[c],
                  JsonResponse(Obj(("summary" :> AnalyzeFallbackBody.v["summary"]) @@
                                   ("analysis_time_ms" :>
                                       Num(IF c = "c1" THEN 1000 ELSE 1001)))))]
    /\ UNCHANGED <<apiKey, wizVars>>

\* catch (error) { ... the fixed fallback summary ... }
AnalyzeCatch(c) ==
    /\ conn[c].pc = "catch" /\ conn[c].fn = "analyze"
    /\ conn' = [conn EXCEPT ![c] = Respond(conn[c], JsonResponse(AnalyzeFallbackBody))]
    /\ UNCHANGED <<apiKey, wizVars>>

(***************************************************************************)
(* The edge functions as a system                                          *)
(***************************************************************************)
EdgeInit ==
    /\ apiKey \in {"set", "unset"}
    /\ conn = [c \in Conns |-> Idle]

\* useState initial values
WizardInit ==
    /\ currentStage = "upload"
    /\ uploadedFile = Null
    /\ proposalSummary = Null
    /\ generatedOutput = Null
    /\ isAnalyzing = FALSE
    /\ isGenerating = FALSE
    /\ selectedReason = ""
    /\ specificReasons = <<>>
    /\ errors = {}
    /\ pending = <<>>

Init == EdgeInit /\ WizardInit

EdgeNext ==
    \E c \in Conns :
        \/ \E body \in GenerateBodies : Receive(c, "generate", "POST", body)
        \/ \E body \in AnalyzeBodies : Receive(c, "analyze", "POST", body)
        \/ \E fn \in {"generate", "analyze"} : Receive(c, fn, "OPTIONS", Malformed)
        \/ GenerateOptions(c)
        \/ GenerateTry(c)
        \/ \E out \in GenerateOutcomes : GenerateMemoReturns(c, out)
        \/ \E out \in GenerateOutcomes : GenerateLetterReturns(c, out)
        \/ GenerateCatch(c)
        \/ AnalyzeOptions(c)
        \/ AnalyzeTry(c)
        \/ \E out \in AnalyzeOutcomes : AnalyzeReturns(c, out)
        \/ AnalyzeCatch(c)
        \/ Close(c)

\* Proposal texts given character by character, of lengths around the
\* limit of the extraction prompt.
CharacterText(n) == [i \in 1..n |-> ToString(i % 10)]

TextLengths == {0, 1, 7999, 8000, 8001, 8010}

LongAnalyzeBodies ==
    {JsonBody(Obj(("text_content" :> Str(CharacterText(n))) @@
                  ("filename" :> Str(<<"proposal.txt">>)))) : n \in TextLengths}

\* analyze-proposal serving one long proposal after the other.
PromptNext ==
    \/ \E body \in LongAnalyzeBodies : Receive("c1", "analyze", "POST", body)
    \/ AnalyzeTry("c1")
    \/ \E out \in AnalyzeOutcomes : AnalyzeReturns("c1", out)
    \/ AnalyzeCatch("c1")
    \/ Close("c1")

SpecPrompt == Init /\ [][PromptNext]_vars

SpecEdge == Init /\ [][EdgeNext]_vars


(***************************************************************************)
(* The wizard: local text extraction                                       *)
(***************************************************************************)
\* The first line that names the organization, its text after the first
\* colon (up to the next one), trimmed; undefined if no line does.
extractOrganizationName(text) ==
    LET lines == Lines(text)
        hits == {i \in DOMAIN lines :
                    \/ Includes(lines[i], <<"Organization", ":">>)
                    \/ Includes(lines[i], <<"Applicant", ":">>)}
    IN  IF hits = {} THEN Undef
        ELSE LET first == CHOOSE i \in hits : \A j \in hits : i <= j
                 parts == Split(lines[first], ":")
             IN  IF Len(parts) < 2 THEN Undef ELSE Str(Trim(parts[2]))

\* Tokens that the pattern /\$[\d,]+(?:\.\d{2})?/ matches, with the match.
DollarMatch ==
    [tok \in {"$50,000", "$20,000"} |-> tok]

\* The first dollar amount in the text; undefined if there is none.
extractGrantAmount(text) ==
    LET hits == {i \in DOMAIN text : text[i] \in DOMAIN DollarMatch} IN
    IF hits = {} THEN Undef
    ELSE Str(<<DollarMatch[text[CHOOSE i \in hits : \A j \in hits : i <= j]]>>)

\* Prefix lengths of the two local summaries.
FallbackDescriptionLength == 200
BasicDescriptionLength == 300

\* The summary built when the response carries no summary.
fallbackSummary(file) ==
    Obj(("organizationName" :>
            Or(extractOrganizationName(file.text_content), Str(<<"Organization">>))) @@
        ("grantAmount" :>
            Or(extractGrantAmount(file.text_content), Str(<<"Amount not specified">>))) @@
        ("projectDescription" :>
            Or(Str(Substring0(file.text_content, FallbackDescriptionLength)),
               Str(<<"Project description">>))) @@
        ("targetPopulation" :> Str(<<"Community members">>)) @@
        ("geographicScope" :> Str(<<"Local area">>)))

\* The summary built in the catch block.
basicSummary(file) ==
    Obj(("organizationName" :>
            Or(extractOrganizationName(file.text_content), Str(<<"Organization">>))) @@
        ("grantAmount" :>
            Or(extractGrantAmount(file.text_content), Str(<<"Funding amount not specified">>))) @@
        ("projectDescription" :>
            Or(Str(Substring0(file.text_content, BasicDescriptionLength)),
               Str(<<"See uploaded document">>))) @@
        ("targetPopulation" :> Str(<<"See proposal details">>)) @@
        ("geographicScope" :> Str(<<"See proposal details">>)))

(***************************************************************************)
(* The wizard: the two documents it builds                                 *)
(***************************************************************************)
\* generateNYCTFormattedMemo with the justification moved after the
\* Rationale line.
generateNYCTFormattedMemo_reordered(summary, reasonCode, specificReasonsText) ==
    LET lower == LookupLower(reasonLabels, reasonCode) IN
    IF ~lower.ok THEN lower
    ELSE Ok(ToText(Get(summary, "organizationName"))
            \o <<". This ">> \o ToText(Get(summary, "grantAmount"))
            \o <<" request is to support ">> \o ToText(Get(summary, "projectDescription"))
            \o <<".", NL, NL, "I recommend this request be declined for ">>
            \o ToText(Or(lower.v, Str(<<"the selected reason">>)))
            \o <<".", NL, NL, "Rationale: ">>
            \o ToText(Or(Lookup(reasonLabels, reasonCode), Str(<<"Decline Reason">>)))
            \o <<". ">> \o specificReasonsText)

generateNYCTFormattedMemo(summary, reasonCode, specificReasonsText) ==
    LET lower == LookupLower(reasonLabels, reasonCode) IN
    IF ~lower.ok THEN lower
    ELSE Ok(ToText(Get(summary, "organizationName"))
            \o (IF Truthy(Get(summary, "foundingYear"))
                THEN <<", founded in ">> \o ToText(Get(summary, "foundingYear")) \o <<",">>
                ELSE <<>>)
            \o <<" ">>
            \o ToText(Or(Get(summary, "organizationMission"), Str(<<"serves the community">>)))
            \o <<". This ">> \o ToText(Get(summary, "grantAmount"))
            \o <<" request is to support ">> \o ToText(Get(summary, "projectDescription"))
            \o <<". ">>
            \o (IF Truthy(Get(summary, "projectBudget"))
                THEN <<"The project budget is ">> \o ToText(Get(summary, "projectBudget"))
                ELSE <<>>)
            \o (IF Truthy(Get(summary, "currentBudget"))
                THEN <<" and the organization's current operating budget is ">>
                     \o ToText(Get(summary, "currentBudget")) \o <<".">>
                ELSE <<".">>)
            \o <<NL, NL, "I recommend this request be declined for ">>
            \o ToText(Or(lower.v, Str(<<"the selected reason">>)))
            \o <<". ">> \o specificReasonsText
            \o <<NL, NL, "Rationale: ">>
            \o ToText(Or(Lookup(reasonLabels, reasonCode), Str(<<"Decline Reason">>))))

generateExternalLetter(reasonCode) ==
    <<"Dear Applicant,", NL, NL,
      "Thank you for your proposal submission to The New York Community Trust. We genuinely appreciate your organization's dedication to serving the community and the considerable time you invested in preparing your application.",
      NL, NL,
      "After careful review by our program team and board, we have determined that we will not be able to provide funding for this request at this time. While we recognize the important work your organization does, this proposal does not align with our current funding priorities.",
      NL, NL,
      "We encourage you to review our updated funding guidelines on our website and invite you to consider applying for future opportunities that may better align with your organization's mission and our strategic priorities.",
      NL, NL,
      "Thank you again for considering The New York Community Trust as a potential partner in your work.",
      NL, NL, "Best regards,", NL, "NYCT Program Team">>


(***************************************************************************)
(* The wizard: inputs of the environment                                   *)
(***************************************************************************)
UploadedFile(hash, text, name, size) ==
    [proposal_hash |-> hash, text_content |-> text, filename |-> name, size |-> size]

\* What FileUpload may hand to onFileUploaded.
WizardFiles ==
    {UploadedFile("h1", TestOrgText.v, "proposal.txt", 61),
     UploadedFile("h2", <<>>, "empty.txt", 0)}

\* Bodies an analyze endpoint may answer with.
AnalyzeReplies ==
    {Stringify(AnalyzeSuccessBody(JSONParse(c).v)) : c \in {d \in AnalyzeContents : JSONParse(d).ok}}
    \cup {Stringify(AnalyzeFallbackBody), EmptyObj, Null}

\* How the fetch of handleFileUploaded may settle.
FetchOutcomes ==
    {[kind |-> "networkError"], [kind |-> "notOk"], [kind |-> "bodyNotJson"]}
    \cup {[kind |-> "json", data |-> d] : d \in AnalyzeReplies}

\* A sentence of one hundred characters.
HundredChars ==
    "The proposal asks for twice the current budget and gives no evidence the staff can carry the program"

\* The number of characters of the pieces of text the user types.
CharsOf ==
    ("No plan to sustain funding after grant period." :> 46) @@
    ("Budget doubles." :> 15) @@
    ("Five part-time staff." :> 21) @@
    (" " :> 1) @@
    (NL :> 1) @@ ("x" :> 1) @@ (HundredChars :> 100)

\* text.length
RECURSIVE CharLen(_)
CharLen(s) == IF s = <<>> THEN 0 ELSE CharsOf[Head(s)] + CharLen(Tail(s))

\* maxLength={1000} of the textarea
maxLength == 1000

\* Justifications of 501, of 1000 and of 1001 characters.
LongReasons == <<HundredChars, HundredChars, HundredChars, HundredChars, HundredChars, "x">>
FullReasons == [i \in 1..10 |-> HundredChars]
OverlongReasons == FullReasons \o <<"x">>

\* What the user may try to type or paste into the specific-reasons box.
ReasonTexts ==
    {<<>>, <<" ", NL>>, NoPlan.v, TwoLines.v, LongReasons, FullReasons, OverlongReasons}

\* The values of the reason dropdown: the placeholder and the eight codes.
ReasonOptions == {""} \cup {DECLINE_REASONS[i].value : i \in DOMAIN DECLINE_REASONS}

\* Analyze requests that may be in flight at once before the model stops
\* accepting new ones.
MaxPending == 2

(***************************************************************************)
(* The wizard: what is on screen                                           *)
(***************************************************************************)
\* FileUpload staying on screen during the analysis stage.
UploadShown_duringAnalysis == currentStage \in {"upload", "analysis"}

\* Stage 1 shows FileUpload.
UploadShown == currentStage = "upload"

\* ProposalSummary showing its buttons also while isLoading.
SummaryButtonsShown_whileLoading ==
    currentStage = "analysis" /\ Truthy(proposalSummary)

\* Stage 2 shows ProposalSummary once a summary is set, and ProposalSummary
\* shows its two buttons unless isLoading.
SummaryButtonsShown ==
    currentStage = "analysis" /\ Truthy(proposalSummary) /\ ~isAnalyzing

\* Stage 3 shows DeclineInput.
DeclineInputShown == currentStage = "decline" /\ Truthy(proposalSummary)

\* Stage 4 shows the output and the Start New Process button.
OutputShown == currentStage = "output" /\ generatedOutput # Null

(***************************************************************************)
(* The wizard: handlers                                                    *)
(***************************************************************************)
\* handleFileUploaded up to its await: the state updates and the fetch.
handleFileUploaded(file) ==
    IF file = Null
    THEN UNCHANGED wizVars
    ELSE /\ Len(pending) < MaxPending
         /\ uploadedFile' = file
         /\ currentStage' = "analysis"
         /\ isAnalyzing' = TRUE
         /\ pending' = Append(pending, [file |-> file])
         /\ UNCHANGED <<proposalSummary, generatedOutput, isGenerating,
                        selectedReason, specificReasons, errors>>

FileUploaded(file) ==
    /\ UploadShown
    /\ handleFileUploaded(file)
    /\ UNCHANGED edgeVars

\* The rest of handleFileUploaded, when its fetch has settled.
summaryAfterFetch(file, out) ==
    IF out.kind # "json" \/ IsNullish(out.data) THEN basicSummary(file)
    ELSE IF Truthy(Get(out.data, "summary")) THEN Get(out.data, "summary")
    ELSE fallbackSummary(file)

\* The rest of handleFileUploaded keeping a summary that is already set.
AnalyzeFetchSettles_firstWins(i, out) ==
    /\ i \in DOMAIN pending
    /\ proposalSummary' = IF Truthy(proposalSummary) THEN proposalSummary
                          ELSE summaryAfterFetch(pending[i].file, out)
    /\ isAnalyzing' = FALSE
    /\ pending' = SubSeq(pending, 1, i - 1) \o SubSeq(pending, i + 1, Len(pending))
    /\ UNCHANGED <<currentStage, uploadedFile, generatedOutput, isGenerating,
                   selectedReason, specificReasons, errors>>
    /\ UNCHANGED edgeVars

\* The rest of handleFileUploaded with setIsAnalyzing(false) as the last
\* statement of the try block instead of a finally block.
AnalyzeFetchSettles_noFinally(i, out) ==
    /\ i \in DOMAIN pending
    /\ proposalSummary' = summaryAfterFetch(pending[i].file, out)
    /\ isAnalyzing' = (out.kind # "json" \/ IsNullish(out.data))
    /\ pending' = SubSeq(pending, 1, i - 1) \o SubSeq(pending, i + 1, Len(pending))
    /\ UNCHANGED <<currentStage, uploadedFile, generatedOutput, isGenerating,
                   selectedReason, specificReasons, errors>>
    /\ UNCHANGED edgeVars

AnalyzeFetchSettles(i, out) ==
    /\ i \in DOMAIN pending
    /\ proposalSummary' = summaryAfterFetch(pending[i].file, out)
    /\ isAnalyzing' = FALSE
    /\ pending' = SubSeq(pending, 1, i - 1) \o SubSeq(pending, i + 1, Len(pending))
    /\ UNCHANGED <<currentStage, uploadedFile, generatedOutput, isGenerating,
                   selectedReason, specificReasons, errors>>
    /\ UNCHANGED edgeVars

\* Proceed to Generate Decline; DeclineInput mounts with its initial state.
handleProceedToDecline ==
    /\ SummaryButtonsShown
    /\ currentStage' = "decline"
    /\ selectedReason' = ""
    /\ specificReasons' = <<>>
    /\ errors' = {}
    /\ UNCHANGED <<uploadedFile, proposalSummary, generatedOutput, isAnalyzing,
                   isGenerating, pending>>
    /\ UNCHANGED edgeVars

\* Regenerate Summary
handleRegenerateSummary ==
    /\ SummaryButtonsShown
    /\ IF uploadedFile # Null THEN handleFileUploaded(uploadedFile) ELSE UNCHANGED wizVars
    /\ UNCHANGED edgeVars

\* the dropdown's onChange
SelectReason(value) ==
    /\ DeclineInputShown
    /\ selectedReason' = value
    /\ errors' = errors \ {"reason"}
    /\ UNCHANGED <<currentStage, uploadedFile, proposalSummary, generatedOutput,
                   isAnalyzing, isGenerating, specificReasons, pending>>
    /\ UNCHANGED edgeVars

\* the textarea's onChange; the textarea holds at most maxLength characters
EditSpecificReasons(text) ==
    /\ DeclineInputShown
    /\ CharLen(text) <= maxLength
    /\ specificReasons' = text
    /\ errors' = errors \ {"details"}
    /\ UNCHANGED <<currentStage, uploadedFile, proposalSummary, generatedOutput,
                   isAnalyzing, isGenerating, selectedReason, pending>>
    /\ UNCHANGED edgeVars

\* handleGenerateDecline awaiting a request to GENERATE_URL: the handler
\* suspends with isGenerating set and the documents not yet built.
handleGenerateDecline_viaEndpoint(reasonCode, specificReasonsText) ==
    IF ~Truthy(proposalSummary)
    THEN UNCHANGED <<currentStage, generatedOutput, isGenerating>>
    ELSE /\ isGenerating' = TRUE
         /\ UNCHANGED <<currentStage, generatedOutput>>

\* handleGenerateDecline: it never awaits, so it runs from setIsGenerating(true)
\* to the finally block within the click.
handleGenerateDecline(reasonCode, specificReasonsText) ==
    IF ~Truthy(proposalSummary)
    THEN UNCHANGED <<currentStage, generatedOutput, isGenerating>>
    ELSE LET memo == generateNYCTFormattedMemo(proposalSummary, reasonCode, specificReasonsText) IN
         /\ IF memo.ok
            THEN /\ generatedOutput' = [internal_rationale |-> memo.v,
                                        external_reply |-> generateExternalLetter(reasonCode),
                                        generation_time_ms |-> 2000]
                 /\ currentStage' = "output"
            ELSE UNCHANGED <<currentStage, generatedOutput>>
         /\ isGenerating' = FALSE

\* handleGenerate testing the specific reasons without trim().
ClickGenerate_untrimmed ==
    /\ DeclineInputShown
    /\ ~isGenerating
    /\ LET newErrors == (IF selectedReason = "" THEN {"reason"} ELSE {})
                        \cup (IF specificReasons = <<>> THEN {"details"} ELSE {})
       IN  IF newErrors # {}
           THEN /\ errors' = newErrors
                /\ UNCHANGED <<currentStage, generatedOutput, isGenerating>>
           ELSE /\ errors' = {}
                /\ handleGenerateDecline(selectedReason, specificReasons)
    /\ UNCHANGED <<uploadedFile, proposalSummary, isAnalyzing, selectedReason,
                   specificReasons, pending>>
    /\ UNCHANGED edgeVars

\* DeclineInput.handleGenerate, the Generate button's onClick
ClickGenerate ==
    /\ DeclineInputShown
    /\ ~isGenerating
    /\ LET newErrors == (IF selectedReason = "" THEN {"reason"} ELSE {})
                        \cup (IF Trim(specificReasons) = <<>> THEN {"details"} ELSE {})
       IN  IF newErrors # {}
           THEN /\ errors' = newErrors
                /\ UNCHANGED <<currentStage, generatedOutput, isGenerating>>
           ELSE /\ errors' = {}
                /\ handleGenerateDecline(selectedReason, specificReasons)
    /\ UNCHANGED <<uploadedFile, proposalSummary, isAnalyzing, selectedReason,
                   specificReasons, pending>>
    /\ UNCHANGED edgeVars

\* resetForm without setUploadedFile(null).
resetForm_keepsFile ==
    /\ OutputShown
    /\ proposalSummary' = Null
    /\ generatedOutput' = Null
    /\ currentStage' = "upload"
    /\ UNCHANGED <<uploadedFile, isAnalyzing, isGenerating, selectedReason,
                   specificReasons, errors, pending>>
    /\ UNCHANGED edgeVars

\* resetForm leaving the summary in place.
resetForm_keepsSummary ==
    /\ OutputShown
    /\ uploadedFile' = Null
    /\ generatedOutput' = Null
    /\ currentStage' = "upload"
    /\ UNCHANGED <<proposalSummary, isAnalyzing, isGenerating, selectedReason,
                   specificReasons, errors, pending>>
    /\ UNCHANGED edgeVars

\* resetForm returning to the analysis stage.
resetForm_toAnalysis ==
    /\ OutputShown
    /\ uploadedFile' = Null
    /\ proposalSummary' = Null
    /\ generatedOutput' = Null
    /\ currentStage' = "analysis"
    /\ UNCHANGED <<isAnalyzing, isGenerating, selectedReason, specificReasons, errors, pending>>
    /\ UNCHANGED edgeVars

\* Start New Process
resetForm ==
    /\ OutputShown
    /\ uploadedFile' = Null
    /\ proposalSummary' = Null
    /\ generatedOutput' = Null
    /\ currentStage' = "upload"
    /\ UNCHANGED <<isAnalyzing, isGenerating, selectedReason, specificReasons, errors, pending>>
    /\ UNCHANGED edgeVars

WizardNext ==
    \/ \E file \in WizardFiles \cup {Null} : FileUploaded(file)
    \/ \E i \in 1..MaxPending, out \in FetchOutcomes : AnalyzeFetchSettles(i, out)
    \/ handleProceedToDecline
    \/ handleRegenerateSummary
    \/ \E value \in ReasonOptions : SelectReason(value)
    \/ \E text \in ReasonTexts : EditSpecificReasons(text)
    \/ ClickGenerate
    \/ resetForm

SpecWizard == Init /\ [][WizardNext]_vars


(***************************************************************************)
(* Properties of the edge functions                                        *)
(***************************************************************************)
\* Connections whose POST to the named function has been answered.
Answered(fn) ==
    {c \in Conns : conn[c].pc = "done" /\ conn[c].fn = fn /\ conn[c].method = "POST"}

HasMembers(body, keys) == IsObj(body) /\ keys \subseteq DOMAIN body.v

NonEmptyString(x) == IsStr(x) /\ x.v # <<>>

\* A model call that did not yield a reply content: create() rejected, or
\* the completion had no choice to read.
CallFailed(out) == out.kind = "error" \/ (out.kind = "completion" /\ out.choices = <<>>)
CallSucceeded(out) == out.kind = "completion" /\ out.choices # <<>>

\* C1: every POST to generate-decline ends in a 200 response whose body
\* carries internal_rationale and external_reply; no path ends in an
\* uncaught exception or another status.
C1_GenerateAlways200 ==
    \A c \in Answered("generate") :
        /\ ~conn[c].rejected
        /\ conn[c].resp.status = 200
        /\ HasMembers(conn[c].resp.body, {"internal_rationale", "external_reply"})

\* C2: every POST to analyze-proposal ends in a 200 response whose body
\* contains a summary object and analysis_time_ms; no path ends in an
\* uncaught exception.
C2_AnalyzeAlways200 ==
    \A c \in Answered("analyze") :
        /\ ~conn[c].rejected
        /\ conn[c].resp.status = 200
        /\ HasMembers(conn[c].resp.body, {"summary", "analysis_time_ms"})
        /\ IsObj(conn[c].resp.body.v["summary"])

\* C3: in every response the generate-decline handler returns,
\* internal_rationale and external_reply are both non-empty strings.
C3_GenerateTextsNonEmpty ==
    \A c \in Answered("generate") :
        ~conn[c].rejected =>
            /\ HasMembers(conn[c].resp.body, {"internal_rationale", "external_reply"})
            /\ NonEmptyString(conn[c].resp.body.v["internal_rationale"])
            /\ NonEmptyString(conn[c].resp.body.v["external_reply"])

\* The request's three members, for a body that is a JSON object.
RequestArgs(r) ==
    [k \in {"reason_code", "specific_reasons", "proposal_summary"} |-> Get(r.body.v, k)]

TemplateMemoOf(r) ==
    fallbackMemo(RequestArgs(r)["proposal_summary"], ToKey(RequestArgs(r)["reason_code"]),
                 RequestArgs(r)["specific_reasons"])

TemplateLetterOf(r) == fallbackLetter(RequestArgs(r)["proposal_summary"])

\* A request that names a reason from the enumeration and carries a summary
\* object: the templates are defined on it.
WellFormedRequest(r) ==
    /\ r.body.json /\ IsObj(r.body.v)
    /\ IsObj(RequestArgs(r)["proposal_summary"])
    /\ ToKey(RequestArgs(r)["reason_code"]) \in DOMAIN reasonDescriptions

\* C4: the two documents degrade independently.  When the rationale call
\* fails, the response holds the template rationale and the letter is not
\* lost with it; when the letter call fails after the rationale call
\* succeeded, the response holds the model-written rationale together with
\* the template letter.
C4_DocumentsFailIndependently ==
    \A c \in {a \in Answered("generate") : WellFormedRequest(conn[a])} :
        LET r == conn[c] IN
        /\ (Len(r.calls) >= 1 /\ CallFailed(r.calls[1].outcome)) =>
              /\ HasMembers(r.resp.body, {"internal_rationale", "external_reply"})
              /\ r.resp.body.v["internal_rationale"] = Str(TemplateMemoOf(r).v)
              /\ NonEmptyString(r.resp.body.v["external_reply"])
        /\ (Len(r.calls) = 2 /\ CallSucceeded(r.calls[1].outcome)
              /\ CallFailed(r.calls[2].outcome)) =>
              /\ HasMembers(r.resp.body, {"internal_rationale", "external_reply"})
              /\ r.resp.body.v["internal_rationale"] = r.internalMemo
              /\ r.resp.body.v["external_reply"] = Str(TemplateLetterOf(r).v)

\* A value a ProposalSummary field may hold: a string or null, and for
\* keyDeliverables a list of strings or null.
WellTypedField(f, x) ==
    \/ x.t = "null"
    \/ f # "keyDeliverables" /\ IsStr(x)
    \/ f = "keyDeliverables" /\ x.t = "array" /\ \A i \in DOMAIN x.v : IsStr(x.v[i])

WellFormedSummary(x) ==
    /\ IsObj(x)
    /\ \A f \in SummaryFields : f \in DOMAIN x.v /\ WellTypedField(f, x.v[f])

\* C5: the summary in every analyze response has each of the twelve
\* declared fields present, each a string (keyDeliverables a list of
\* strings) or null, on the model path and on the fallback path.
C5_SummaryHasEveryField ==
    \A c \in Answered("analyze") :
        /\ HasMembers(conn[c].resp.body, {"summary"})
        /\ WellFormedSummary(conn[c].resp.body.v["summary"])


\* The text names the reason by this label in both places: the sentence
\* that recommends the decline, and the closing Rationale line.
NamesReasonAs(text, label) ==
    /\ Includes(text, <<"I recommend this request be declined for ", label, ". ">>)
    /\ \E i \in DOMAIN Lines(text) : Lines(text)[i] = <<"Rationale: ", label>>

\* C6: for a reason_code outside the eight codes, generation does not fail
\* and the reason is written as "the specified reason" in the sentence that
\* recommends the decline and in the Rationale line: in the prompt and the
\* template of the edge function, and in the wizard's memo builder.
C6_UnknownCodeIsTheSpecifiedReason ==
    \A c \in Conns :
        LET r == conn[c] IN
        (/\ r.pc # "idle" /\ r.fn = "generate" /\ r.method = "POST"
         /\ r.body.json /\ IsObj(r.body.v)
         /\ IsObj(RequestArgs(r)["proposal_summary"])
         /\ ToKey(RequestArgs(r)["reason_code"]) \notin DOMAIN reasonDescriptions) =>
            LET code == ToKey(RequestArgs(r)["reason_code"])
                reasons == RequestArgs(r)["specific_reasons"]
                summary == RequestArgs(r)["proposal_summary"]
                prompt == memoPrompt(code, reasons, summary)
                template == fallbackMemo(summary, code, reasons)
                wizard == generateNYCTFormattedMemo(summary, code, ToText(reasons))
            IN  /\ prompt.ok /\ NamesReasonAs(prompt.v, "the specified reason")
                /\ template.ok /\ NamesReasonAs(template.v, "the specified reason")
                /\ wizard.ok /\ NamesReasonAs(wizard.v, "the specified reason")
                /\ Len(r.calls) >= 1 => NamesReasonAs(r.calls[1].prompt, "the specified reason")

(***************************************************************************)
(* Properties of the wizard and of the reason labels                       *)
(***************************************************************************)
DropdownCodes == {DECLINE_REASONS[i].value : i \in DOMAIN DECLINE_REASONS}

\* The label the dropdown shows for a code.
DropdownLabel(code) ==
    DECLINE_REASONS[CHOOSE i \in DOMAIN DECLINE_REASONS : DECLINE_REASONS[i].value = code].label

\* C7: the dropdown, the wizard's memo builder and the generate-decline
\* function map the same eight codes to the same labels, so the label a
\* generated memo carries for the selected code is the label the dropdown
\* showed for it, whichever component writes the memo.
C7_SameLabelEverywhere ==
    /\ Len(DECLINE_REASONS) = 8 /\ Cardinality(DropdownCodes) = 8
    /\ DOMAIN reasonLabels = DropdownCodes
    /\ DOMAIN reasonDescriptions = DropdownCodes
    /\ \A code \in DropdownCodes :
          /\ reasonLabels[code] = DropdownLabel(code)
          /\ reasonDescriptions[code] = DropdownLabel(code)
    /\ currentStage = "output" =>
          LET shown == <<"Rationale: ", DropdownLabel(selectedReason)>>
              prompt == memoPrompt(selectedReason, Str(specificReasons), proposalSummary)
              template == fallbackMemo(proposalSummary, selectedReason, Str(specificReasons))
          IN  /\ Includes(generatedOutput.internal_rationale, shown)
              /\ prompt.ok /\ Includes(prompt.v, shown)
              /\ template.ok /\ Includes(template.v, shown)

C7_Witness ==
    /\ currentStage = "output"
    /\ selectedReason = "geographic_scope"
    /\ Includes(generatedOutput.internal_rationale,
                <<"Rationale: ", "Geographic Scope Limitation">>)

C10_StagesWaitForTheirCall ==
    /\ [](SummaryButtonsShown => ~isAnalyzing /\ pending = <<>> /\ proposalSummary # Null)
    /\ [][(currentStage # "decline" /\ currentStage' = "decline") =>
              (~isAnalyzing /\ pending = <<>> /\ proposalSummary # Null)]_vars
    /\ [][(currentStage # "output" /\ currentStage' = "output") =>
              (~isGenerating' /\ generatedOutput' # Null)]_vars

C10_Witness ==
    /\ currentStage = "output"
    /\ generatedOutput # Null
    /\ pending = <<>>

\* C11: at most one analyze request of the wizard is in flight: while one is
\* pending it is the request for the current file, isAnalyzing is true and
\* neither the upload control nor the summary buttons are on screen, so no
\* second request starts and no response can overwrite the summary of a
\* later request; and no generation is triggered while isGenerating is true.
C11_OneAnalyzeInFlight ==
    /\ [](Len(pending) <= 1)
    /\ [](pending # <<>> =>
            /\ isAnalyzing /\ ~UploadShown /\ ~SummaryButtonsShown
            /\ pending[1].file = uploadedFile)
    /\ [][Len(pending') > Len(pending) => pending = <<>>]_vars
    /\ [][(generatedOutput' # generatedOutput /\ generatedOutput' # Null) => ~isGenerating]_vars

\* A regenerated analysis is in flight while the earlier summary is kept.
C11_Witness ==
    /\ Len(pending) = 1
    /\ currentStage = "analysis"
    /\ Truthy(proposalSummary)
    /\ isAnalyzing

\* The stage changes of the wizard.
StageSteps ==
    {<<"upload", "analysis">>, <<"analysis", "decline">>,
     <<"decline", "output">>, <<"output", "upload">>}

NoModelCallIsRepeated ==
    \A c \in Conns :
        LET r == conn[c] IN
        r.pc # "idle" =>
            /\ r.fn = "analyze" => Len(r.calls) <= 1
            /\ r.fn = "generate" =>
                  /\ Len(r.calls) <= 2
                  /\ \A i \in DOMAIN r.calls : r.calls[i].call = <<"memo", "letter">>[i]
            /\ \A i \in DOMAIN r.calls :
                  CallFailed(r.calls[i].outcome) =>
                      i = Len(r.calls) /\ r.pc \in {"catch", "done"}

\* C13: there is no retry: a request issues each of its model calls at most
\* once, a failed call is never issued again, and a request whose model
\* call failed is answered with the fallback (a 200 response built from the
\* templates) straight away.
C13_FailureGoesStraightToFallback ==
    /\ NoModelCallIsRepeated
    /\ \A fn \in {"analyze", "generate"} :
          \A c \in Answered(fn) :
              LET r == conn[c] IN
              (\E i \in DOMAIN r.calls : CallFailed(r.calls[i].outcome)) =>
                  /\ ~r.rejected
                  /\ r.resp.status = 200
                  /\ fn = "analyze" => r.resp = JsonResponse(AnalyzeFallbackBody)
                  /\ (fn = "generate" /\ WellFormedRequest(r)) =>
                        r.resp = JsonResponse(GenerateFallbackBody(TemplateMemoOf(r).v,
                                                                   TemplateLetterOf(r).v))

\* Generate requests in progress or answered whose body carries a summary.
WithSummary ==
    {c \in Conns : /\ conn[c].pc # "idle" /\ conn[c].fn = "generate"
                    /\ conn[c].method = "POST"
                    /\ conn[c].body.json /\ IsObj(conn[c].body.v)
                    /\ ~IsNullish(RequestArgs(conn[c])["proposal_summary"])}

OrganizationOf(r) == Get(RequestArgs(r)["proposal_summary"], "organizationName")

C15_PreflightTouchesNothing ==
    \A c \in Conns :
        LET r == conn[c] IN
        (r.pc = "done" /\ r.method = "OPTIONS") =>
            /\ ~r.rejected
            /\ DOMAIN r.resp.headers =
                  {"Access-Control-Allow-Origin", "Access-Control-Allow-Headers"}
            /\ r.resp.headers["Access-Control-Allow-Origin"] = "*"
            /\ r.resp.headers["Access-Control-Allow-Headers"]
                  = "authorization, x-client-info, apikey, content-type"
            /\ ~r.bodyUsed /\ ~r.envRead /\ r.calls = <<>>

\* Both functions have answered a preflight while no credential is set.
C15_Witness ==
    /\ apiKey = "unset"
    /\ \E c1, c2 \in Conns :
          /\ conn[c1].pc = "done" /\ conn[c1].method = "OPTIONS" /\ conn[c1].fn = "generate"
          /\ conn[c2].pc = "done" /\ conn[c2].method = "OPTIONS" /\ conn[c2].fn = "analyze"
          /\ conn[c1].resp.headers = corsHeaders /\ conn[c2].resp.headers = corsHeaders

\* The model replies a request has received for its own calls.
RepliesOf(r) == [i \in DOMAIN r.calls |-> r.calls[i].outcome]

IsFirstSliceOf(p, text) ==
    /\ Len(p) <= Len(text)
    /\ SubSeq(text, 1, Len(p)) = p
    /\ text # <<>> => p # <<>>

\* C17: when no credential is configured or the model call fails, the
\* summary of the response is built from the request: organizationName
\* names the request's filename, projectDescription is a first slice of
\* text_content, and grantAmount, targetPopulation and geographicScope are
\* present as placeholder strings.
C17_FallbackSummaryFromRequest ==
    \A c \in Answered("analyze") :
        LET r == conn[c]
            text == Get(r.body.v, "text_content")
            filename == Get(r.body.v, "filename")
            summary == r.resp.body.v["summary"]
        IN  (/\ r.body.json /\ IsObj(r.body.v) /\ IsStr(text) /\ IsStr(filename)
             /\ \/ apiKey = "unset"
                \/ (r.calls # <<>> /\ CallFailed(r.calls[1].outcome))) =>
                /\ r.resp.status = 200
                /\ HasMembers(summary, {"organizationName", "grantAmount", "projectDescription",
                                        "targetPopulation", "geographicScope"})
                /\ \A f \in {"organizationName", "grantAmount", "projectDescription",
                             "targetPopulation", "geographicScope"} : IsStr(summary.v[f])
                /\ Includes(summary.v["organizationName"].v, filename.v)
                /\ IsFirstSliceOf(summary.v["projectDescription"].v, text.v)

\* C18: when the model call of analyze-proposal succeeds and its reply is
\* a text that is no valid JSON, the response is a 200 whose summary has a
\* projectDescription that is the first slice of the raw reply text, and
\* placeholder strings for organizationName and grantAmount.
C18_UnparsableReplyBecomesDescription ==
    \A c \in Answered("analyze") :
        LET r == conn[c]
            summary == r.resp.body.v["summary"]
        IN  (/\ r.calls # <<>> /\ CallSucceeded(r.calls[1].outcome)
             /\ IsStr(FirstContent(r.calls[1].outcome).v)
             /\ FirstContent(r.calls[1].outcome).v.v # <<>>
             /\ ~JSONParse(FirstContent(r.calls[1].outcome).v).ok) =>
                /\ ~r.rejected /\ r.resp.status = 200
                /\ HasMembers(summary, {"organizationName", "grantAmount", "projectDescription"})
                /\ IsStr(summary.v["projectDescription"])
                /\ IsFirstSliceOf(summary.v["projectDescription"].v,
                                  FirstContent(r.calls[1].outcome).v.v)

C20_GenerationNeedsValidInput ==
    /\ [][(generatedOutput' # generatedOutput /\ generatedOutput' # Null) =>
              /\ DeclineInputShown
              /\ selectedReason \in DropdownCodes
              /\ Trim(specificReasons) # <<>>
              /\ errors' = {}]_vars
    /\ [][(ClickGenerate /\ (selectedReason = "" \/ Trim(specificReasons) = <<>>)) =>
              /\ errors' = {e \in {"reason"} : selectedReason = ""}
                            \cup {e \in {"details"} : Trim(specificReasons) = <<>>}
              /\ UNCHANGED <<currentStage, proposalSummary, generatedOutput>>]_vars

\* A click with a reason selected and only white space typed was refused.
C20_Witness ==
    /\ currentStage = "decline"
    /\ selectedReason \in DropdownCodes
    /\ specificReasons = <<" ", NL>>
    /\ errors = {"details"}
    /\ generatedOutput = Null

(***************************************************************************)
(* Lengths                                                                 *)
(***************************************************************************)
\* The limit the requirements give for the specific-reasons text.
RequiredDetailsLimit == 500

\* C21: the specific-reasons text the decline form holds, and the text
\* from which a memo was generated, is never longer than 500 characters.
C21_ReasonsAtMost500Characters ==
    CharLen(specificReasons) <= RequiredDetailsLimit

\* The prompt's lines before the proposal text.
PromptHeader == extractionPrompt(Str(<<>>)).v

C23_RegenerateReplacesSummary ==
    /\ [](SummaryButtonsShown => ENABLED handleRegenerateSummary)
    /\ [][(currentStage = "analysis" /\ Len(pending') > Len(pending)) =>
              /\ SummaryButtonsShown
              /\ pending' = <<[file |-> uploadedFile]>>
              /\ isAnalyzing'
              /\ UNCHANGED <<uploadedFile, currentStage, proposalSummary>>]_vars
    /\ [][\A out \in FetchOutcomes :
              AnalyzeFetchSettles(1, out) =>
                  /\ proposalSummary' = summaryAfterFetch(uploadedFile, out)
                  /\ ~isAnalyzing' /\ pending' = <<>>
                  /\ UNCHANGED <<uploadedFile, currentStage>>]_vars

\* A regenerated analysis is in flight for the file whose earlier summary
\* came from local extraction.
C23_Witness ==
    /\ currentStage = "analysis"
    /\ uploadedFile # Null
    /\ pending = <<[file |-> uploadedFile]>>
    /\ proposalSummary = basicSummary(uploadedFile)
    /\ isAnalyzing

(***************************************************************************)
(* analyze-proposal as printed in the setup guide (dashboard variant) and  *)
(* in the PDF update (PDF variant)                                         *)
(***************************************************************************)
Variants == {"analyze-dashboard", "analyze-pdf"}

\* substring(0, 4000) of the prompt and substring(0, 200) of the fallbacks
VariantPromptLimit == 4000
VariantSliceLength == 200

Field(name, text) == name :> Str(<<text>>)

\* The summary each variant returns when OPENAI_API_KEY is not set.
NoKeySummary(fn, text_content, filename) ==
    IF fn = "analyze-pdf"
    THEN Ok(Obj(Field("organizationName", "Astoria Cat Rescue") @@
                Field("grantAmount", "$150,000") @@
                Field("projectDescription", "Facility expansion to increase capacity for TNR programs, medical care, fostering, and adoption services") @@
                Field("targetPopulation", "Stray feline population in Astoria") @@
                Field("geographicScope", "Astoria, Queens, New York") @@
                Field("organizationMission", "Give stray cats a chance not just to survive, but to thrive") @@
                Field("foundingYear", "2014") @@
                Field("currentBudget", "$120,000") @@
                Field("projectBudget", "$284,500")))
    ELSE IF Truthy(text_content) /\ ~IsStr(text_content) THEN Throw("TypeError")
    ELSE Ok(Obj(("organizationName" :>
                    Str(<<"Organization from ">> \o ToText(Or(filename, Str(<<"Document">>))))) @@
                Field("grantAmount", "$100,000") @@
                ("projectDescription" :>
                    IF Truthy(text_content)
                    THEN Str(Substring0(text_content.v, VariantSliceLength))
                    ELSE Str(<<"Project description">>)) @@
                Field("targetPopulation", "Community members") @@
                Field("geographicScope", "New York City") @@
                Field("organizationMission", "Community service") @@
                Field("foundingYear", "2020")))

\* The PDF variant's extractedText: a placeholder for base64 PDF data.
ExtractedText(text_content, filename) ==
    IF ~Truthy(text_content) THEN Ok(text_content)
    ELSE IF ~IsStr(text_content) THEN Throw("TypeError")
    ELSE IF Head(text_content.v) = "PDF_BASE64:"
    THEN Ok(Str(<<"[PDF content from ">> \o ToText(filename)
                \o <<". Note: Full PDF text extraction requires additional setup. For testing, please use a text file or the sample text below.]",
                     NL, NL, "Sample extracted text:", NL,
                     "Astoria Cat Rescue requests $150,000 to support facility expansion for increased capacity to serve stray feline population through TNR programs, medical care, fostering, and adoption services.",
                     NL, NL,
                     "Organization founded in 2014, currently provides daily care to 18 cat colonies (160 cats), facilitated 225 adoptions, spayed/neutered 2,162 cats.">>))
    ELSE Ok(text_content)

\* The user message sent to the chat completions endpoint.
VariantPrompt(fn, text) ==
    IF ~IsStr(text) THEN Throw("TypeError")
    ELSE IF fn = "analyze-pdf"
    THEN Ok(<<"Extract grant proposal information from this text and return as JSON",
              NL, NL, "Text: ">> \o Substring0(text.v, VariantPromptLimit))
    ELSE Ok(<<"Extract key information from this proposal: ">>
            \o Substring0(text.v, VariantPromptLimit))

\* The response of the outer catch block; error.message is the text of e.
VariantCatchResponse(fn, e) ==
    IF fn = "analyze-pdf"
    THEN JsonResponse(Obj(("summary" :> Obj(Field("organizationName", "Unable to process") @@
                                            Field("grantAmount", "Unknown") @@
                                            Field("projectDescription", e))) @@
                          ("analysis_time_ms" :> Num(1000))))
    ELSE JsonResponse(Obj(("summary" :> Obj(Field("organizationName", "Organization") @@
                                            Field("grantAmount", "Unknown") @@
                                            Field("projectDescription", "Error processing proposal"))) @@
                          ("analysis_time_ms" :> Num(1000)) @@
                          Field("error", e)))

\* The response of the inner catch: the reply could not be parsed.
ParseFailureResponse(fn, content, filename) ==
    IF fn = "analyze-pdf"
    THEN JsonResponse(Obj(("summary" :>
                             Obj(("organizationName" :>
                                     Str(<<"Organization from ">> \o ToText(filename))) @@
                                 ("projectDescription" :>
                                     Str(Substring0(content.v, VariantSliceLength))) @@
                                 Field("grantAmount", "$100,000"))) @@
                          ("analysis_time_ms" :> Num(2000))))
    ELSE JsonResponse(Obj(("summary" :>
                             Obj(Field("organizationName", "Organization") @@
                                 Field("grantAmount", "$100,000") @@
                                 ("projectDescription" :>
                                     Str(Substring0(content.v, VariantSliceLength))) @@
                                 Field("targetPopulation", "Community") @@
                                 Field("geographicScope", "New York"))) @@
                          ("analysis_time_ms" :> Num(2000))))

\* What fetch to the chat completions endpoint may settle with.
HttpReply(ok, body) == [kind |-> "response", ok |-> ok, body |-> body]
Choice(content) == Obj("message" :> Obj("content" :> content))
ChatBody(choices) == Obj("choices" :> Arr(choices))
ErrorBody == Obj("error" :> Obj(Field("message", "Incorrect API key provided")))

ModelEndpointReplies ==
    {[kind |-> "error"],
     HttpReply(TRUE, JsonBody(ChatBody(<<Choice(Str(FullSummaryJson))>>))),
     HttpReply(TRUE, JsonBody(ChatBody(<<Choice(Str(<<"Here is the summary you asked for.">>))>>))),
     HttpReply(TRUE, JsonBody(ChatBody(<<Choice(Null)>>))),
     HttpReply(TRUE, JsonBody(ChatBody(<<>>))),
     HttpReply(FALSE, JsonBody(ErrorBody)),
     HttpReply(FALSE, Malformed)}

VariantBodies ==
    AnalyzeBodies \cup
    {JsonBody(Obj(("text_content" :> Str(<<"PDF_BASE64:", "JVBERi0xLjQK">>)) @@
                  ("filename" :> Str(<<"proposal.pdf">>))))}

\* data.choices[0]
FirstChoice(data) ==
    LET choices == Get(data, "choices") IN
    IF choices.t = "array" /\ choices.v # <<>> THEN choices.v[1] ELSE Undef

VariantOptions(c) ==
    /\ conn[c].pc = "start" /\ conn[c].fn \in Variants /\ conn[c].method = "OPTIONS"
    /\ conn' = [conn EXCEPT ![c] = Respond(conn[c], PreflightResponse)]
    /\ UNCHANGED <<apiKey, wizVars>>

\* try { req.json(); Deno.env.get; without a key the canned summary, else
\* fetch(...) is issued.  A throw runs the outer catch, which has no await.
VariantTry(c) ==
    /\ conn[c].pc = "start" /\ conn[c].fn \in Variants /\ conn[c].method # "OPTIONS"
    /\ LET r == conn[c]
           read == [r EXCEPT !.bodyUsed = TRUE]
           json == ReqJson(r)
           args == IF json.ok THEN Destructure(json.v, {"text_content", "filename"}) ELSE json
           text == IF ~args.ok THEN args
                   ELSE IF r.fn = "analyze-pdf"
                   THEN ExtractedText(args.v["text_content"], args.v["filename"])
                   ELSE Ok(args.v["text_content"])
           noKey == IF text.ok
                    THEN NoKeySummary(r.fn, args.v["text_content"], args.v["filename"])
                    ELSE text
           prompt == IF text.ok THEN VariantPrompt(r.fn, text.v) ELSE text
       IN  conn' = [conn EXCEPT ![c] =
             IF ~text.ok
             THEN Respond(read, VariantCatchResponse(r.fn, text.e))
             ELSE IF apiKey = "unset"
             THEN Respond([read EXCEPT !.envRead = TRUE, !.args = Obj(args.v)],
                          IF noKey.ok
                          THEN JsonResponse(Obj(("summary" :> noKey.v) @@
                                                ("analysis_time_ms" :> Num(1000))))
                          ELSE VariantCatchResponse(r.fn, noKey.e))
             ELSE IF ~prompt.ok
             THEN Respond([read EXCEPT !.envRead = TRUE, !.args = Obj(args.v)],
                          VariantCatchResponse(r.fn, prompt.e))
             ELSE [read EXCEPT !.pc = "fetchCall", !.envRead = TRUE, !.args = Obj(args.v),
                               !.calls = <<[call |-> "fetch", prompt |-> prompt.v,
                                            outcome |-> Pending]>>]]
    /\ UNCHANGED <<apiKey, wizVars>>

\* What the handler returns once fetch has settled with out: a Response, or
\* nothing (Undef) when the if over data.choices is skipped, since no
\* statement follows it inside the try block.
VariantReturn(fn, out, filename) ==
    IF out.kind = "error" THEN VariantCatchResponse(fn, "fetch failed")
    ELSE IF fn = "analyze-pdf" /\ ~out.ok THEN VariantCatchResponse(fn, "OpenAI API error")
    ELSE IF ~out.body.json THEN VariantCatchResponse(fn, "SyntaxError")
    ELSE LET data == out.body.v
             choice == FirstChoice(data)
             message == Get(choice, "message")
             content == Get(message, "content")
             extracted == JSONParse(content)
         IN  IF IsNullish(data) THEN VariantCatchResponse(fn, "TypeError")
             ELSE IF ~(Truthy(Get(data, "choices")) /\ Truthy(choice)) THEN Undef
             ELSE IF IsNullish(message) THEN VariantCatchResponse(fn, "TypeError")
             ELSE IF extracted.ok
             THEN JsonResponse(Obj(("summary" :> extracted.v) @@
                                   ("analysis_time_ms" :> Num(2000))))
             ELSE IF ~IsStr(content) THEN VariantCatchResponse(fn, "TypeError")
             ELSE ParseFailureResponse(fn, content, filename)

\* What the client gets when the handler resolves to undefined: serve()
\* cannot send it, so the connection is closed without a response or is
\* answered by the platform with its 500.
UnsentOutcomes == {NoResp, InternalServerError}

\* fetch settles; response.json(); data.choices; JSON.parse; the response
VariantFetchReturns(c, out, unsent) ==
    /\ conn[c].pc = "fetchCall" /\ conn[c].fn \in Variants
    /\ LET r == conn[c]
           settled == [r EXCEPT !.calls[1].outcome = out]
           returned == VariantReturn(r.fn, out, Get(r.args, "filename"))
       IN  conn' = [conn EXCEPT ![c] =
             IF returned = Undef THEN Respond(settled, unsent)
             ELSE Respond(settled, returned)]
    /\ UNCHANGED <<apiKey, wizVars>>

DashboardNext ==
    \E c \in Conns :
        \/ \E fn \in Variants, body \in VariantBodies \cup {Malformed} :
              Receive(c, fn, "POST", body)
        \/ \E fn \in Variants : Receive(c, fn, "OPTIONS", Malformed)
        \/ VariantOptions(c)
        \/ VariantTry(c)
        \/ \E out \in ModelEndpointReplies, unsent \in UnsentOutcomes :
              VariantFetchReturns(c, out, unsent)
        \/ Close(c)

SpecDashboard == Init /\ [][DashboardNext]_vars

\* C24: in the dashboard variants of analyze-proposal every POST is answered
\* with status 200 and a body holding a summary, whatever the model endpoint
\* replied (a JSON body without choices included).
C24_VariantsAlwaysAnswer ==
    \A c \in Conns :
        (conn[c].pc = "done" /\ conn[c].fn \in Variants /\ conn[c].method = "POST")
        => /\ conn[c].resp # NoResp
           /\ conn[c].resp.status = 200
           /\ HasMembers(conn[c].resp.body, {"summary"})

\* C25: every settling of the wizard's analyze request (a body with a
\* summary, a body without one, a non-2xx status, a network error, an
\* unparseable body) leaves isAnalyzing false and proposalSummary set, with
\* the review screen and its buttons shown; so the analysis stage shows the
\* spinner only while a request is pending.
C25_EverySettlingReachesReview ==
    /\ [][\A i \in DOMAIN pending, out \in FetchOutcomes :
              AnalyzeFetchSettles(i, out) =>
                  /\ ~isAnalyzing'
                  /\ proposalSummary' # Null /\ Truthy(proposalSummary')
                  /\ currentStage' = "analysis" /\ SummaryButtonsShown']_vars
    /\ []((currentStage = "analysis" /\ pending = <<>>) => SummaryButtonsShown)

\* The request for the empty file has settled in the catch block, and the
\* review screen shows the locally extracted summary.
C25_Witness ==
    /\ currentStage = "analysis"
    /\ pending = <<>>
    /\ ~isAnalyzing
    /\ uploadedFile = UploadedFile("h2", <<>>, "empty.txt", 0)
    /\ proposalSummary = basicSummary(uploadedFile)
    /\ SummaryButtonsShown

(***************************************************************************)
(* State of the wizard                                                     *)
(***************************************************************************)
\* C26: in every state of the wizard, a stage of decline or output implies a
\* summary is set; an output is set exactly when the stage is output; and a
\* file is set exactly when the stage is not upload.
C26_StageDeterminesWhatIsSet ==
    /\ currentStage \in {"decline", "output"} => proposalSummary # Null
    /\ generatedOutput # Null <=> currentStage = "output"
    /\ uploadedFile # Null <=> currentStage # "upload"

\* The output stage after a generation for higher_merit: file, summary
\* and output are all set.
C26_Witness ==
    /\ currentStage = "output"
    /\ selectedReason = "higher_merit"
    /\ uploadedFile # Null /\ proposalSummary # Null /\ generatedOutput # Null

(***************************************************************************)
(* Order of the two model calls                                            *)
(***************************************************************************)
\* The requests to generate-decline that are being served or were served.
GenerateRequests == {c \in Conns : conn[c].pc # "idle" /\ conn[c].fn = "generate"}

HasHeader(resp, name, value) == name \in DOMAIN resp.headers /\ resp.headers[name] = value

\* C28: every response to a POST of either edge function, on the success
\* path and on the fallback path, carries Access-Control-Allow-Origin: * and
\* Content-Type: application/json.
C28_PostResponsesCarryJsonAndCors ==
    \A c \in Answered("generate") \cup Answered("analyze") :
        /\ HasHeader(conn[c].resp, "Access-Control-Allow-Origin", "*")
        /\ HasHeader(conn[c].resp, "Content-Type", "application/json")

\* The same for the responses the handlers themselves construct.
ConstructedResponsesCarryJsonAndCors ==
    \A c \in Answered("generate") \cup Answered("analyze") :
        ~conn[c].rejected =>
            /\ HasHeader(conn[c].resp, "Access-Control-Allow-Origin", "*")
            /\ HasHeader(conn[c].resp, "Content-Type", "application/json")

=============================================================================
